---- MODULE Spec2Model ----
(***************************************************************************)
(* KeyArray<K> (src/src/lib.rs): a Vec of keys plus the index of the       *)
(* current key.  One KeyArray value is modelled; every public method is    *)
(* one action, and the record `last` keeps the call just made (method,     *)
(* arguments, the object before the call, outcome, returned key) so that   *)
(* the contract of each method can be stated over single states.           *)
(***************************************************************************)
EXTENDS Integers, Sequences, FiniteSets, TLC

VARIABLES
    keys,             \* KeyArray.keys : Vec<K>
    idx,              \* KeyArray.idx  : usize
    live,             \* a KeyArray value has been constructed
    overflow_checks,  \* the build: TRUE = overflow checks on (debug profile)
    last              \* the call just made

vars == <<keys, idx, live, overflow_checks, last>>

\* ---------------------------------------------------------------- bounds
\* Longest key list explored (push/insert stop growing the Vec there).
MaxLen == 3

\* Width of usize in the model.  The targets have 32 or 64 bits; the model
\* keeps a narrower word, still wider than any index it uses, so that the
\* wrap-around of usize arithmetic is a value TLC can hold.
UsizeBits == 4

UsizeMax == 2 ^ UsizeBits - 1

\* The key type K: any Clone + PartialEq + Debug + Display value.
Keys == {"A", "B", "C"}

\* "no key": the return slot of a call that returns nothing.
NoKey == "-"

\* Arguments the callers pass.
Indices == 0 .. (MaxLen + 1)

InputSeqs == UNION {[1 .. n -> Keys] : n \in 0 .. MaxLen}

\* ------------------------------------------------------- usize arithmetic
\* a + b and a - b on usize: the exact result when it fits; otherwise the
\* operation overflows, which panics when overflow checks are on and wraps
\* modulo 2^UsizeBits when they are off.
usize_add(a, b) ==
    [overflow |-> a + b > UsizeMax, value |-> (a + b) % (UsizeMax + 1)]

usize_sub_saturating(a, b) ==
    [overflow |-> FALSE, value |-> IF a - b < 0 THEN 0 ELSE a - b]

usize_sub(a, b) ==
    [overflow |-> a - b < 0, value |-> (a - b) % (UsizeMax + 1)]

\* ------------------------------------------------------------ Vec methods
\* Vec::push
vec_push_front(s, x) == <<x>> \o s

vec_push(s, x) == Append(s, x)

\* Vec::insert(i, x) for i <= len: x becomes element i, the rest shift right.
vec_insert_replace(s, i, x) ==
    IF i < Len(s) THEN [s EXCEPT ![i + 1] = x] ELSE Append(s, x)

vec_insert_after(s, i, x) ==
    IF i < Len(s)
    THEN SubSeq(s, 1, i + 1) \o <<x>> \o SubSeq(s, i + 2, Len(s))
    ELSE Append(s, x)

vec_insert(s, i, x) == SubSeq(s, 1, i) \o <<x>> \o SubSeq(s, i + 1, Len(s))

\* Vec::remove(i) for i < len: the rest shift left.
vec_remove_last(s, i) == SubSeq(s, 1, Len(s) - 1)

vec_remove(s, i) == SubSeq(s, 1, i) \o SubSeq(s, i + 2, Len(s))

\* ------------------------------------------------- the checks of the code
\* new_with: assert!(start_idx < keys.len())
new_with_in_bounds_incl(start_idx, S) == start_idx <= Len(S)

new_with_in_bounds(start_idx, S) == start_idx < Len(S)

\* change: assert!(i < self.keys.len())
change_in_bounds_incl(i, ks) == i <= Len(ks)

change_in_bounds(i, ks) == i < Len(ks)

\* insert: assert!(i <= self.keys.len())
insert_in_bounds_strict(i, ks) == i < Len(ks)

insert_in_bounds(i, ks) == i <= Len(ks)

\* insert: if i <= self.idx { self.idx += 1 }
insert_bumps_strict(i, cur) == i < cur

insert_bumps_always(i, cur) == TRUE

insert_bumps(i, cur) == i <= cur

\* remove: assert!(i < self.keys.len())
remove_in_bounds(i, ks) == i < Len(ks)

\* remove: if self.idx >= self.keys.len()   (ks is the Vec after the removal)
remove_clamps_strict(cur, ks) == cur > Len(ks)

remove_clamps(cur, ks) == cur >= Len(ks)

\* ------------------------------------------------------------- inspection
current == keys[idx + 1]

current_index == idx

len == Len(keys)

\* {:?} of a key and {} of a key, for keys that are strings as in the tests.
debug_key(k) == "\"" \o k \o "\""

display_key(k) == k

\* {:?} of the Vec: the keys' Debug forms, comma separated, in brackets.
RECURSIVE debug_list(_)
debug_list(s) ==
    IF s = <<>> THEN ""
    ELSE IF Len(s) = 1 THEN debug_key(s[1])
    ELSE debug_key(s[1]) \o ", " \o debug_list(Tail(s))

debug_vec(s) == "[" \o debug_list(s) \o "]"

\* Display::fmt: "keys={:?}, current_idx={}, current={}"
fmt ==
    "keys=" \o debug_vec(keys) \o ", current_idx=" \o ToString(idx)
        \o ", current=" \o display_key(current)

\* ------------------------------------------------------------ bookkeeping
\* `prev` is filled in by remove(i) alone, when the call before it was a
\* successful insert(i, x): that insert's key and the object before it.
NoPrev == [op |-> "none", key |-> NoKey, keys0 |-> <<>>, idx0 |-> 0]

Call(op, i, key, S, ix) ==
    [op |-> op, i |-> i, key |-> key, keys0 |-> S, idx0 |-> ix,
     outcome |-> "ok", err |-> "", ret |-> NoKey, prev |-> NoPrev]

InsertBefore(i) ==
    IF last.op = "insert" /\ last.outcome = "ok" /\ last.i = i
    THEN [op |-> "insert", key |-> last.key,
          keys0 |-> last.keys0, idx0 |-> last.idx0]
    ELSE NoPrev

Ok(c) == last' = c

Returned(c, k) == last' = [c EXCEPT !.ret = k]

Panic(c, err) == last' = [c EXCEPT !.outcome = "panic", !.err = err]

\* ------------------------------------------------------------------- Init
Init ==
    /\ keys = <<>>
    /\ idx = 0
    /\ live = FALSE
    /\ overflow_checks \in BOOLEAN
    /\ last = Call("none", 0, NoKey, <<>>, 0)

\* ---------------------------------------------------------- constructors
\* KeyArray::new(keys)
new_at_last(S) ==
    /\ ~live
    /\ IF S = <<>>
       THEN /\ Panic(Call("new", 0, NoKey, S, 0), "EmptyInput")
            /\ UNCHANGED <<keys, idx, live>>
       ELSE /\ keys' = S
            /\ idx' = Len(S) - 1
            /\ live' = TRUE
            /\ Ok(Call("new", 0, NoKey, S, 0))
    /\ UNCHANGED overflow_checks

new(S) ==
    /\ ~live
    /\ IF S = <<>>
       THEN /\ Panic(Call("new", 0, NoKey, S, 0), "EmptyInput")
            /\ UNCHANGED <<keys, idx, live>>
       ELSE /\ keys' = S
            /\ idx' = 0
            /\ live' = TRUE
            /\ Ok(Call("new", 0, NoKey, S, 0))
    /\ UNCHANGED overflow_checks

\* KeyArray::new_with(keys, start_idx): the emptiness assert comes first.
new_with_index_first(S, start_idx) ==
    /\ ~live
    /\ IF ~new_with_in_bounds(start_idx, S)
       THEN /\ Panic(Call("new_with", start_idx, NoKey, S, 0), "IndexOutOfRange")
            /\ UNCHANGED <<keys, idx, live>>
       ELSE IF S = <<>>
       THEN /\ Panic(Call("new_with", start_idx, NoKey, S, 0), "EmptyInput")
            /\ UNCHANGED <<keys, idx, live>>
       ELSE /\ keys' = S
            /\ idx' = start_idx
            /\ live' = TRUE
            /\ Ok(Call("new_with", start_idx, NoKey, S, 0))
    /\ UNCHANGED overflow_checks

new_with(S, start_idx) ==
    /\ ~live
    /\ IF S = <<>>
       THEN /\ Panic(Call("new_with", start_idx, NoKey, S, 0), "EmptyInput")
            /\ UNCHANGED <<keys, idx, live>>
       ELSE IF ~new_with_in_bounds(start_idx, S)
       THEN /\ Panic(Call("new_with", start_idx, NoKey, S, 0), "IndexOutOfRange")
            /\ UNCHANGED <<keys, idx, live>>
       ELSE /\ keys' = S
            /\ idx' = start_idx
            /\ live' = TRUE
            /\ Ok(Call("new_with", start_idx, NoKey, S, 0))
    /\ UNCHANGED overflow_checks

\* --------------------------------------------------------------- mutation
\* KeyArray::change(i)
change(i) ==
    /\ live
    /\ IF ~change_in_bounds(i, keys)
       THEN /\ Panic(Call("change", i, NoKey, keys, idx), "IndexOutOfRange")
            /\ UNCHANGED <<keys, idx>>
       ELSE /\ idx' = i
            /\ Ok(Call("change", i, NoKey, keys, idx))
            /\ UNCHANGED keys
    /\ UNCHANGED <<live, overflow_checks>>

\* KeyArray::push(key)
push(key) ==
    /\ live
    /\ keys' = vec_push(keys, key)
    /\ Ok(Call("push", 0, key, keys, idx))
    /\ UNCHANGED <<idx, live, overflow_checks>>

\* KeyArray::insert(i, key).  The Vec is changed before `self.idx += 1`, so
\* an overflow panic of that addition leaves the key inserted.
insert(i, key) ==
    /\ live
    /\ LET c == Call("insert", i, key, keys, idx)
           sum == usize_add(idx, 1)
       IN  IF ~insert_in_bounds(i, keys)
           THEN /\ Panic(c, "IndexOutOfRange")
                /\ UNCHANGED <<keys, idx>>
           ELSE /\ keys' = vec_insert(keys, i, key)
                /\ IF insert_bumps(i, idx)
                   THEN IF sum.overflow /\ overflow_checks
                        THEN /\ Panic(c, "Overflow")
                             /\ UNCHANGED idx
                        ELSE /\ idx' = sum.value
                             /\ Ok(c)
                   ELSE /\ Ok(c)
                        /\ UNCHANGED idx
    /\ UNCHANGED <<live, overflow_checks>>

\* KeyArray::remove(i).  The Vec is changed before the clamp, and the clamp
\* computes `self.keys.len() - 1` on the Vec after the removal: on an emptied
\* Vec that subtraction overflows.
remove(i) ==
    /\ live
    /\ LET c == [Call("remove", i, NoKey, keys, idx)
                   EXCEPT !.prev = InsertBefore(i)]
           ks == vec_remove(keys, i)
           diff == usize_sub(Len(ks), 1)
       IN  IF ~remove_in_bounds(i, keys)
           THEN /\ Panic(c, "IndexOutOfRange")
                /\ UNCHANGED <<keys, idx>>
           ELSE /\ keys' = ks
                /\ IF remove_clamps(idx, ks)
                   THEN IF diff.overflow /\ overflow_checks
                        THEN /\ Panic(c, "Overflow")
                             /\ UNCHANGED idx
                        ELSE /\ idx' = diff.value
                             /\ Returned(c, keys[i + 1])
                   ELSE /\ Returned(c, keys[i + 1])
                        /\ UNCHANGED idx
    /\ UNCHANGED <<live, overflow_checks>>

\* ------------------------------------------------------------- inspection
\* KeyArray::current(): &self.keys[self.idx]; indexing a Vec out of bounds
\* panics.
call_current_first ==
    /\ live
    /\ IF idx < Len(keys)
       THEN Returned(Call("current", 0, NoKey, keys, idx), keys[1])
       ELSE Panic(Call("current", 0, NoKey, keys, idx), "IndexOutOfRange")
    /\ UNCHANGED <<keys, idx, live, overflow_checks>>

call_current ==
    /\ live
    /\ IF idx < Len(keys)
       THEN Returned(Call("current", 0, NoKey, keys, idx), current)
       ELSE Panic(Call("current", 0, NoKey, keys, idx), "IndexOutOfRange")
    /\ UNCHANGED <<keys, idx, live, overflow_checks>>

\* KeyArray::current_index()
call_current_index ==
    /\ live
    /\ Returned(Call("current_index", 0, NoKey, keys, idx), current_index)
    /\ UNCHANGED <<keys, idx, live, overflow_checks>>

\* KeyArray::keys()
call_keys ==
    /\ live
    /\ Returned(Call("keys", 0, NoKey, keys, idx), keys)
    /\ UNCHANGED <<keys, idx, live, overflow_checks>>

\* KeyArray::len()
call_len ==
    /\ live
    /\ Returned(Call("len", 0, NoKey, keys, idx), len)
    /\ UNCHANGED <<keys, idx, live, overflow_checks>>

\* Display::fmt (to_string): the arguments of write! are evaluated first, so
\* the panic of self.current() leaves nothing written.
call_fmt ==
    /\ live
    /\ IF idx < Len(keys)
       THEN Returned(Call("fmt", 0, NoKey, keys, idx), fmt)
       ELSE Panic(Call("fmt", 0, NoKey, keys, idx), "IndexOutOfRange")
    /\ UNCHANGED <<keys, idx, live, overflow_checks>>

\* The Vec has room to grow within the bound n.
Room(n) == Len(keys) < n

Next ==
    \/ \E S \in InputSeqs : new(S)
    \/ \E S \in InputSeqs, k \in Indices : new_with(S, k)
    \/ \E i \in Indices : change(i)
    \/ \E k \in Keys : Room(MaxLen) /\ push(k)
    \/ \E i \in Indices, k \in Keys :
          (insert_in_bounds(i, keys) => Room(MaxLen)) /\ insert(i, k)
    \/ \E i \in Indices : remove(i)
    \/ call_current
    \/ call_current_index
    \/ call_keys
    \/ call_len
    \/ call_fmt

Spec == Init /\ [][Next]_vars

\* ------------------------------------------------ the flow of tests::basic_flow
\* The same methods, called with the arguments of the test: the keys
\* A, B, C to start from, D pushed, X inserted, any index.
FlowStart == <<"A", "B", "C">>

FlowMaxLen == Len(FlowStart) + 2

FlowIndices == 0 .. FlowMaxLen

FlowNext ==
    \/ new(FlowStart)
    \/ \E i \in FlowIndices : change(i)
    \/ Room(FlowMaxLen) /\ push("D")
    \/ \E i \in FlowIndices :
          (insert_in_bounds(i, keys) => Room(FlowMaxLen)) /\ insert(i, "X")
    \/ \E i \in FlowIndices : remove(i)
    \/ call_current
    \/ call_current_index
    \/ call_keys
    \/ call_len

SpecFlow == Init /\ [][FlowNext]_vars

\* ------------------------------------------------------------- properties
\* A valid structure: at least one key and the index on one of them.
Valid(ks, ix) == Len(ks) > 0 /\ 0 <= ix /\ ix < Len(ks)

\* The call just made started from a valid structure.
PreValid == Valid(last.keys0, last.idx0)

Min(a, b) == IF a <= b THEN a ELSE b

Failed == last.outcome = "panic"

Succeeded == last.outcome = "ok"

\* C1: after a successful construction, whatever sequence of change, push,
\* insert and remove calls follows (successful or failing), the key list is
\* non-empty and 0 <= idx < len.
C1_Validity == live => Valid(keys, idx)

\* C2: whenever a call to change, insert or remove fails (panics), the key
\* list and the index are exactly what they were before the call.
C2_FailedCallLeavesStateUnchanged ==
    (last.op \in {"change", "insert", "remove"} /\ Failed)
        => (keys = last.keys0 /\ idx = last.idx0)

\* C3: in every valid state and for every i with 0 <= i <= len, insert(i, x)
\* succeeds, the length grows by exactly 1, keys[i] = x, and the index is the
\* old index + 1 if i <= old index and the old index if i > old index.
C3_InsertCursorRule ==
    (last.op = "insert" /\ PreValid /\ last.i <= Len(last.keys0))
        => /\ Succeeded
           /\ Len(keys) = Len(last.keys0) + 1
           /\ keys[last.i + 1] = last.key
           /\ idx = IF last.i <= last.idx0 THEN last.idx0 + 1 ELSE last.idx0

C3_Witness ==
    /\ last.op = "insert" /\ Succeeded /\ PreValid
    /\ last.i < last.idx0
    /\ idx = last.idx0 + 1
    /\ keys[last.i + 1] = last.key

\* C4: after every successful insert(i, x) on a structure that had a current
\* key (any i in 0..len, i = idx included), the current key is the key that
\* was current before the call, and the index is never the slot i of the
\* newly inserted x.
C4_InsertKeepsCurrentKey ==
    (last.op = "insert" /\ Succeeded /\ PreValid)
        => /\ Valid(keys, idx)
           /\ current = last.keys0[last.idx0 + 1]
           /\ idx # last.i

C4_Witness ==
    /\ last.op = "insert" /\ Succeeded /\ PreValid
    /\ last.i = last.idx0
    /\ last.key # last.keys0[last.idx0 + 1]
    /\ current = last.keys0[last.idx0 + 1]

\* C5: in every valid state and for every i < len, remove(i) returns the key
\* that was at index i, shortens the list by exactly 1, and leaves the index
\* equal to min(old index, new len - 1).
C5_RemoveResultAndClamp ==
    (last.op = "remove" /\ PreValid /\ last.i < Len(last.keys0))
        => /\ Succeeded
           /\ last.ret = last.keys0[last.i + 1]
           /\ Len(keys) = Len(last.keys0) - 1
           /\ idx = Min(last.idx0, Len(keys) - 1)

\* C6 as stated: after every successful remove(i) with i < idx the index is
\* numerically unchanged; equivalently, whenever remove changes the index,
\* the removed slot was at or after the old index (i >= old idx).
C6_RemoveBeforeCursorKeepsIndex ==
    (last.op = "remove" /\ Succeeded /\ PreValid)
        => /\ (last.i < last.idx0 => idx = last.idx0)
           /\ (idx # last.idx0 => last.i >= last.idx0)

\* C6 as amended: after a successful remove(i) with i < idx on a valid
\* structure, the index is unchanged when the old index was not the last slot
\* (old idx < old len - 1) and is old idx - 1 (= new len - 1, still on the
\* same key) when the old index was the last slot; whenever remove changes
\* the index, the old index was the last slot (old idx = old len - 1).
C6_RemoveBeforeCursorAmended ==
    (last.op = "remove" /\ Succeeded /\ PreValid)
        => /\ (last.i < last.idx0 =>
                 IF last.idx0 < Len(last.keys0) - 1
                 THEN idx = last.idx0
                 ELSE /\ idx = last.idx0 - 1
                      /\ idx = Len(keys) - 1
                      /\ current = last.keys0[last.idx0 + 1])
           /\ (idx # last.idx0 => last.idx0 = Len(last.keys0) - 1)

C6_Witness ==
    /\ last.op = "remove" /\ Succeeded /\ PreValid
    /\ last.i < last.idx0
    /\ last.idx0 = Len(last.keys0) - 1
    /\ idx = last.idx0 - 1

\* C7: push(x) in any valid state lengthens the list by exactly 1, places x
\* at index len - 1, leaves every earlier key and the index unchanged, and so
\* leaves the current key unchanged.
C7_PushFrame ==
    (last.op = "push" /\ PreValid)
        => /\ Succeeded
           /\ Len(keys) = Len(last.keys0) + 1
           /\ keys[Len(keys)] = last.key
           /\ SubSeq(keys, 1, Len(last.keys0)) = last.keys0
           /\ idx = last.idx0
           /\ current = last.keys0[last.idx0 + 1]

C7_Witness ==
    /\ last.op = "push" /\ Succeeded /\ PreValid
    /\ last.idx0 > 0
    /\ keys[Len(keys)] = last.key
    /\ last.key # last.keys0[1]
    /\ idx = last.idx0

\* C8: in every valid state, change(i) with i < len succeeds and afterwards
\* current_index() = i and current() = keys[i]; with i >= len it fails with
\* an out-of-range error and current_index() is unchanged.
C8_Change ==
    (last.op = "change" /\ PreValid)
        => IF last.i < Len(last.keys0)
           THEN /\ Succeeded
                /\ current_index = last.i
                /\ current = last.keys0[last.i + 1]
           ELSE /\ Failed
                /\ last.err = "IndexOutOfRange"
                /\ current_index = last.idx0

C8_Witness ==
    /\ last.op = "change" /\ Succeeded /\ PreValid
    /\ last.i # last.idx0
    /\ current_index = last.i

\* C9: new(S) for every non-empty S yields a structure whose keys equal S in
\* order, whose index is 0 and whose current key is S[0].
C9_New ==
    (last.op = "new" /\ last.keys0 # <<>>)
        => /\ Succeeded
           /\ live
           /\ keys = last.keys0
           /\ current_index = 0
           /\ current = last.keys0[1]

C9_Witness ==
    /\ last.op = "new" /\ Succeeded /\ live
    /\ Len(keys) >= 2
    /\ keys[1] # keys[2]
    /\ current = keys[1]

\* C10: new_with(S, k) for non-empty S succeeds exactly when k < len(S), and
\* then keys equal S and current_index() = k; for every k >= len(S) it fails
\* with an out-of-range error and no structure is produced.
C10_NewWith ==
    (last.op = "new_with" /\ last.keys0 # <<>>)
        => IF last.i < Len(last.keys0)
           THEN /\ Succeeded
                /\ live
                /\ keys = last.keys0
                /\ current_index = last.i
           ELSE /\ Failed
                /\ last.err = "IndexOutOfRange"
                /\ ~live

C10_Witness ==
    /\ last.op = "new_with" /\ Succeeded /\ live
    /\ last.i > 0
    /\ keys = last.keys0
    /\ current_index = last.i

\* C11: new([]) fails with the empty-input error, and new_with([], k) fails
\* with the empty-input error for every k: the emptiness check comes before
\* the index check, so an out-of-range k on an empty input is never reported
\* as an index error; no structure is produced.
C11_EmptyConstruction ==
    (last.op \in {"new", "new_with"} /\ last.keys0 = <<>>)
        => /\ Failed
           /\ last.err = "EmptyInput"
           /\ ~live

C11_Witness ==
    /\ last.op = "new_with" /\ last.keys0 = <<>>
    /\ last.i > 0
    /\ Failed /\ last.err = "EmptyInput"

\* C12: insert(i, x) fails with an out-of-range error exactly when i > len;
\* i = len is accepted and, on a valid structure, leaves exactly the state
\* (keys and idx) that push(x) leaves from the same starting state.
C12_InsertBound ==
    last.op = "insert"
        => /\ (Failed /\ last.err = "IndexOutOfRange") <=> last.i > Len(last.keys0)
           /\ (last.i = Len(last.keys0) /\ PreValid)
                 => /\ Succeeded
                    /\ keys = vec_push(last.keys0, last.key)
                    /\ idx = last.idx0

C12_Witness ==
    /\ last.op = "insert" /\ Succeeded /\ PreValid
    /\ last.i = Len(last.keys0)
    /\ keys = Append(last.keys0, last.key)
    /\ idx = last.idx0

\* C13: current(), current_index(), keys(), len() and to_string() leave keys
\* and idx unchanged, and what each returns is what the same call returns
\* when made again on the state it left (so repeated calls with no mutation
\* in between agree): current() = keys()[current_index()], failing exactly
\* when that slot does not exist, and len() = the number of keys.
InspectOps == {"current", "current_index", "keys", "len", "fmt"}

C13_InspectionIsPure ==
    last.op \in InspectOps
        => /\ keys = last.keys0
           /\ idx = last.idx0
           /\ last.op = "current"
                 => /\ Succeeded <=> idx < Len(keys)
                    /\ Succeeded => last.ret = keys[idx + 1]
           /\ last.op = "current_index" => (Succeeded /\ last.ret = idx)
           /\ last.op = "keys" => (Succeeded /\ last.ret = keys)
           /\ last.op = "len"
                 => (Succeeded /\ last.ret = Cardinality(DOMAIN keys))
           /\ last.op = "fmt"
                 => /\ Succeeded <=> idx < Len(keys)
                    /\ Succeeded => last.ret = fmt

C13_Witness ==
    /\ last.op = "current" /\ Succeeded
    /\ idx > 0
    /\ keys[1] # keys[idx + 1]
    /\ last.ret = keys[idx + 1]
    /\ keys = last.keys0 /\ idx = last.idx0

\* s contains t as a substring.
Contains(s, t) ==
    \E j \in 1 .. (Len(s) - Len(t) + 1) : SubSeq(s, j, j + Len(t) - 1) = t

\* C15: to_string() in any reachable state is well defined and reports the
\* key list in order, the current index and the current key keys[idx].
C15_DisplayReportsState ==
    last.op = "fmt"
        => /\ Succeeded
           /\ Contains(last.ret, debug_vec(keys))
           /\ Contains(last.ret, "current_idx=" \o ToString(idx))
           /\ Contains(last.ret, "current=" \o display_key(keys[idx + 1]))

\* C16: remove(0) on a structure with exactly one key passes the bound
\* check, empties the key list and takes the clamp branch with new len 0,
\* where len - 1 underflows usize: the call panics on the overflow (overflow
\* checks on) or leaves idx = usize::MAX (checks off); no valid index results.
C16_RemoveOnlyKeyUnderflows ==
    (last.op = "remove" /\ PreValid /\ Len(last.keys0) = 1 /\ last.i = 0)
        => /\ keys = <<>>
           /\ last.err # "IndexOutOfRange"
           /\ IF overflow_checks
              THEN Failed /\ last.err = "Overflow" /\ idx = last.idx0
              ELSE Succeeded /\ idx = UsizeMax /\ last.ret = last.keys0[1]
           /\ ~Valid(keys, idx)

C16_Witness ==
    /\ last.op = "remove" /\ PreValid /\ Len(last.keys0) = 1 /\ last.i = 0
    /\ keys = <<>>
    /\ Failed /\ last.err = "Overflow"

\* The call just made is a remove(i) made right after a successful
\* insert(i, x) on a valid structure.
RoundTrip ==
    /\ last.op = "remove"
    /\ last.prev.op = "insert"
    /\ Valid(last.prev.keys0, last.prev.idx0)

\* C17: in any valid state and for any i <= len, insert(i, x) immediately
\* followed by remove(i) returns x and restores the key list exactly.
C17_RoundTripKeys ==
    RoundTrip
        => /\ Succeeded
           /\ last.ret = last.prev.key
           /\ keys = last.prev.keys0

C17_Witness ==
    /\ RoundTrip /\ Succeeded
    /\ last.i > 0 /\ last.i < Len(keys)
    /\ last.ret = last.prev.key
    /\ last.ret # keys[last.i + 1]
    /\ keys = last.prev.keys0

\* C18: with original index c and length n, insert(i, x) followed by
\* remove(i) leaves idx = c when i > c and idx = min(c + 1, n - 1) when
\* i <= c; so for i <= c the index is back on the original slot only if
\* c = n - 1, and otherwise it is on the key that followed it.
C18_RoundTripIndex ==
    RoundTrip
        => LET c == last.prev.idx0
               n == Len(last.prev.keys0)
           IN  /\ idx = IF last.i > c THEN c ELSE Min(c + 1, n - 1)
               /\ last.i <= c => (idx = c <=> c = n - 1)
               /\ (last.i <= c /\ c < n - 1)
                     => current = last.prev.keys0[c + 2]

C18_Witness ==
    /\ RoundTrip /\ Succeeded
    /\ last.i <= last.prev.idx0
    /\ last.prev.idx0 < Len(last.prev.keys0) - 1
    /\ idx = last.prev.idx0 + 1
    /\ current # last.prev.keys0[last.prev.idx0 + 1]

\* C19: change (successful or failing) never changes the key list; a
\* successful insert(i, x) changes it only by adding x at i; a successful
\* remove(i) on a list of two or more keys changes it only by deleting slot
\* i, the other keys keeping their order; every call changes the length by
\* exactly +1, -1 or 0.
C19_EditFrame ==
    /\ last.op = "change" => keys = last.keys0
    /\ (last.op = "insert" /\ Succeeded)
          => /\ Len(keys) = Len(last.keys0) + 1
             /\ keys[last.i + 1] = last.key
             /\ \A j \in 1 .. Len(last.keys0) :
                   last.keys0[j] = IF j <= last.i THEN keys[j] ELSE keys[j + 1]
    /\ (last.op = "remove" /\ Succeeded /\ Len(last.keys0) >= 2)
          => /\ Len(keys) = Len(last.keys0) - 1
             /\ \A j \in 1 .. Len(keys) :
                   keys[j] = IF j <= last.i THEN last.keys0[j]
                                            ELSE last.keys0[j + 1]
    /\ (live /\ last.op \notin {"new", "new_with"})
          => Len(keys) - Len(last.keys0) \in {-1, 0, 1}

C19_Witness ==
    /\ last.op = "insert" /\ Succeeded
    /\ last.i > 0 /\ last.i < Len(last.keys0)
    /\ keys[last.i + 1] = last.key
    /\ keys[last.i] = last.keys0[last.i]
    /\ keys[last.i + 2] = last.keys0[last.i + 1]
    /\ keys[last.i] # keys[last.i + 2]

\* C14: from new([A,B,C]) the current key is A; after change(2) it is C;
\* after push(D) the length is 4 and the current key is still C; after
\* insert(0, X) the index is 3, the current key is still C and keys[0] = X;
\* then remove(0) returns X and leaves keys[0] = A.  Each step starts from
\* exactly the keys and index the step before it is shown to leave.
C14_BasicFlow ==
    /\ (last.op = "new" /\ last.keys0 = <<"A", "B", "C">>)
          => /\ Succeeded
             /\ keys = <<"A", "B", "C">> /\ idx = 0
             /\ current = "A"
    /\ (last.op = "change" /\ last.i = 2
            /\ last.keys0 = <<"A", "B", "C">> /\ last.idx0 = 0)
          => /\ Succeeded
             /\ keys = <<"A", "B", "C">> /\ idx = 2
             /\ current = "C"
    /\ (last.op = "push" /\ last.key = "D"
            /\ last.keys0 = <<"A", "B", "C">> /\ last.idx0 = 2)
          => /\ Succeeded
             /\ len = 4
             /\ keys = <<"A", "B", "C", "D">> /\ idx = 2
             /\ current = "C"
    /\ (last.op = "insert" /\ last.i = 0 /\ last.key = "X"
            /\ last.keys0 = <<"A", "B", "C", "D">> /\ last.idx0 = 2)
          => /\ Succeeded
             /\ current_index = 3
             /\ current = "C"
             /\ keys[1] = "X"
             /\ keys = <<"X", "A", "B", "C", "D">>
    /\ (last.op = "remove" /\ last.i = 0
            /\ last.keys0 = <<"X", "A", "B", "C", "D">> /\ last.idx0 = 3)
          => /\ Succeeded
             /\ last.ret = "X"
             /\ keys[1] = "A"

C14_Witness ==
    /\ last.op = "remove" /\ last.i = 0 /\ Succeeded
    /\ last.prev.op = "insert" /\ last.prev.key = "X"
    /\ last.prev.keys0 = <<"A", "B", "C", "D">> /\ last.prev.idx0 = 2
    /\ last.keys0 = <<"X", "A", "B", "C", "D">> /\ last.idx0 = 3
    /\ last.ret = "X"
    /\ keys = <<"A", "B", "C", "D">>

====
